---- MODULE Spec2Model ----
(***************************************************************************)
(* Room lifecycle of the game server (app/model.py, app/api.py).           *)
(*                                                                         *)
(* The store is the three tables `user`, `room` and `room_user`.  Every    *)
(* handler runs inside one `with engine.begin() as conn:` transaction.     *)
(* A transaction's writes become visible to the others when it commits;    *)
(* its plain SELECTs take no lock.  A handler that only reads, or that     *)
(* only writes, is therefore one step.  join_room reads (SELECT ...        *)
(* the row count) and later writes (INSERT) without any lock between the two,   *)
(* so it is two steps: other transactions may commit in between.           *)
(***************************************************************************)
EXTENDS Integers, FiniteSets, Sequences, Bags

VARIABLES
    user,       \* table `user`: set of rows [id, token]
    room,       \* table `room`: sequence of rows [live_id, status, owner]; the id is the index
    room_user,  \* table `room_user`: bag of rows [room_id, user_id, select_difficulty]
    txn,        \* join_room transactions between their SELECT and their INSERT: bag of locals
    resp,       \* what the step just taken returned to its caller (NoResp: nothing yet)
    todo,       \* race scenario only: the users that have not yet called join_room
    tally       \* race scenario only: how many join_room calls returned each result

vars == <<user, room, room_user, txn, resp, todo, tally>>

----------------------------------------------------------------------------
(* Bounds of the model *)

MaxUsers == 2       \* rows of the user table
MaxRooms == 2       \* rooms ever created
MaxTxn == 1         \* join_room transactions in flight at once
MaxRows == 4        \* room_user rows, written or about to be, in the whole table
MaxJoiners == 5     \* race scenario: concurrent join_room callers
MaxResultRows == 2  \* room_user rows in the runs with end_room and result_room

----------------------------------------------------------------------------
(* Program constants *)

RoomMaxUserCount == 4

normal == 1
hard == 2
LiveDifficulty == {normal, hard}

Ok == 1
RoomFull == 2
Disbanded == 3
OtherError == 4
JoinRoomResult == {Ok, RoomFull, Disbanded, OtherError}

Waiting == 1
LiveStart == 2
Dissoution == 3
WaitRoomStatus == {Waiting, LiveStart, Dissoution}

\* exceptions a handler can end with ("" when it returned normally)
NoError == ""
InvalidToken == "InvalidToken"
NoResultFound == "NoResultFound"

None == 0                               \* Python's None; no table id is 0
NoRow == [status |-> None, count |-> None]

\* What a handler hands back: the exception it ended with or the value it returned,
\* with the arguments of the call and, for a join_room that ends at its checks,
\* the row its SELECT read.
Response(op, token, room_id, live_id, select_difficulty, read, error, result) ==
    [op |-> op, token |-> token, room_id |-> room_id, live_id |-> live_id,
     select_difficulty |-> select_difficulty, read |-> read,
     error |-> error, result |-> result]
NoResp == Response("none", None, None, None, None, NoRow, NoError, None)

----------------------------------------------------------------------------
(* Inputs *)

Token(i) == <<"uuid", i>>
BadToken == Token(0)                    \* a token no user row holds
UserRow(i) == [id |-> i, token |-> Token(i), name |-> <<"name", i>>,
               leader_card_id |-> i]
UserIds == 1..MaxUsers
Tokens == {Token(i) : i \in 0..MaxUsers}
LiveIds == {0, 10}                      \* list_room's wildcard and a song
RoomIds == 1..(MaxRooms + 1)            \* one id beyond the rooms that can exist

----------------------------------------------------------------------------
(* Queries *)

\* SELECT id, name, leader_card_id FROM user WHERE token = :token; result.one(),
\* None when there is no row
_get_user_by_token(conn_user, token) ==
    LET rows == {u \in conn_user : u.token = token}
    IN  IF rows = {} THEN None ELSE (CHOOSE u \in rows : TRUE).id

\* the room_user rows of one room, as a bag
RoomUsers(ru, room_id) ==
    [x \in {y \in DOMAIN ru : y.room_id = room_id} |-> ru[x]]

\* the row count of room r JOIN room_user ru ON r.id = ru.room_id, for one room
CountJoined(ru, room_id) == BagCardinality(RoomUsers(ru, room_id))

\* INSERT INTO room_user (room_id, user_id, select_difficulty) VALUES (...)
\* the judge_count_list column without a value (the lists submitted are not empty)
NoList == <<>>

\* a room_user row as the INSERT leaves it: the INSERT names three columns, the
\* result columns judge_count_list and score get no value
RoomUserRow(room_id, user_id, select_difficulty) ==
    [room_id |-> room_id, user_id |-> user_id,
     select_difficulty |-> select_difficulty,
     judge_count_list |-> NoList, score |-> None]

\* an INSERT that gives score a default value: a score where no result was
\* submitted
_add_user_in_room_default_score(ru, room_id, user_id, select_difficulty) ==
    ru (+) SetToBag({[RoomUserRow(room_id, user_id, select_difficulty)
                         EXCEPT !.score = Len(<<"default">>)]})

_add_user_in_room(ru, room_id, user_id, select_difficulty) ==
    ru (+) SetToBag({RoomUserRow(room_id, user_id, select_difficulty)})

----------------------------------------------------------------------------
(* create_room_with_host: one transaction, INSERT room, INSERT room_user *)

\* create_room_with_host without the _add_user_in_room call (the host is not joined)
create_room_without_host(token, live_id, select_difficulty) ==
    LET uid == _get_user_by_token(user, token)
        room_id == Len(room) + 1
    IN  /\ IF uid = None
           THEN /\ resp' = Response("create_room", token, None, live_id,
                                    select_difficulty, NoRow, InvalidToken, None)
                /\ UNCHANGED <<room, room_user>>
           ELSE /\ room' = Append(room, [live_id |-> live_id, status |-> Waiting,
                                         owner |-> uid])
                /\ UNCHANGED room_user
                /\ resp' = Response("create_room", token, None, live_id,
                                    select_difficulty, NoRow, NoError, room_id)
        /\ UNCHANGED <<user, txn>>

\* create_room_with_host that INSERTs the room before it looks at the token, and
\* outside the transaction, so that InvalidToken leaves the room behind
create_room_then_check_token(token, live_id, select_difficulty) ==
    LET uid == _get_user_by_token(user, token)
        room_id == Len(room) + 1
    IN  /\ room' = Append(room, [live_id |-> live_id, status |-> Waiting,
                                 owner |-> uid])
        /\ IF uid = None
           THEN /\ resp' = Response("create_room", token, None, live_id,
                                    select_difficulty, NoRow, InvalidToken, None)
                /\ UNCHANGED room_user
           ELSE /\ room_user' = _add_user_in_room(room_user, room_id, uid,
                                                  select_difficulty)
                /\ resp' = Response("create_room", token, None, live_id,
                                    select_difficulty, NoRow, NoError, room_id)
        /\ UNCHANGED <<user, txn>>

create_room_with_host(token, live_id, select_difficulty) ==
    LET uid == _get_user_by_token(user, token)
        room_id == Len(room) + 1        \* result.lastrowid
    IN  /\ IF uid = None
           THEN /\ resp' = Response("create_room", token, None, live_id,
                                    select_difficulty, NoRow, InvalidToken, None)
                /\ UNCHANGED <<room, room_user>>
           ELSE /\ room' = Append(room, [live_id |-> live_id, status |-> Waiting,
                                         owner |-> uid])
                /\ room_user' = _add_user_in_room(room_user, room_id, uid,
                                                  select_difficulty)
                /\ resp' = Response("create_room", token, None, live_id,
                                    select_difficulty, NoRow, NoError, room_id)
        /\ UNCHANGED <<user, txn>>

----------------------------------------------------------------------------
(* list_room: one SELECT over room JOIN room_user, GROUP BY room id *)

\* list_room_rows without WHERE r.status = :status
list_room_rows_any_status(rm, ru, live_id) ==
    {[room_id |-> r, live_id |-> rm[r].live_id,
      joined_user_count |-> CountJoined(ru, r), max_user_count |-> 4] :
        r \in {q \in DOMAIN rm :
                 /\ CountJoined(ru, q) > 0
                 /\ (live_id = 0 \/ rm[q].live_id = live_id)}}

\* list_room_rows that takes the second SELECT for live_id 0 too
list_room_rows_no_wildcard(rm, ru, live_id) ==
    {[room_id |-> r, live_id |-> rm[r].live_id,
      joined_user_count |-> CountJoined(ru, r), max_user_count |-> 4] :
        r \in {q \in DOMAIN rm :
                 /\ CountJoined(ru, q) > 0
                 /\ rm[q].status = Waiting
                 /\ rm[q].live_id = live_id}}

\* the rows of the SELECT, each made a RoomInfo
list_room_rows(rm, ru, live_id) ==
    {[room_id |-> r, live_id |-> rm[r].live_id,
      joined_user_count |-> CountJoined(ru, r), max_user_count |-> 4] :
        r \in {q \in DOMAIN rm :
                 /\ CountJoined(ru, q) > 0                  \* inner JOIN: a row to group
                 /\ rm[q].status = Waiting
                 /\ (live_id = 0 \/ rm[q].live_id = live_id)}}

list_room(live_id) ==
    /\ resp' = Response("list_room", None, None, live_id, None, NoRow, NoError,
                        list_room_rows(room, room_user, live_id))
    /\ UNCHANGED <<user, room, room_user, txn>>

----------------------------------------------------------------------------
(* join_room: SELECT status and count, then INSERT, in one transaction that *)
(* locks nothing between the two                                            *)

\* SELECT r.status, the row count FROM room r JOIN room_user ru ... WHERE r.id = :room_id
\* GROUP BY r.id: the set of result rows (at most one)
select_room_status(rm, ru, room_id) ==
    IF room_id \in DOMAIN rm /\ CountJoined(ru, room_id) > 0
    THEN {[status |-> rm[room_id].status, count |-> CountJoined(ru, room_id)]}
    ELSE {}

\* the if / elif of join_room on the row it read: what the call will return
join_room_result(room_status) ==
    IF room_status.count >= RoomMaxUserCount THEN RoomFull
    ELSE IF room_status.status # Waiting THEN Disbanded
    ELSE Ok

\* first half: resolve the token, read the room, decide
join_room_select(token, room_id, select_difficulty) ==
    LET uid == _get_user_by_token(user, token)
        rows == select_room_status(room, room_user, room_id)
        room_status == CHOOSE x \in rows : TRUE
        Ret(read, error, result) ==
            Response("join_room", token, room_id, None, select_difficulty,
                     read, error, result)
    IN  /\ UNCHANGED <<user, room, room_user>>
        /\ IF uid = None
           THEN resp' = Ret(NoRow, InvalidToken, None) /\ UNCHANGED txn
           ELSE IF rows = {}                                  \* .one() raises
           THEN resp' = Ret(NoRow, NoResultFound, None) /\ UNCHANGED txn
           ELSE IF join_room_result(room_status) # Ok
           THEN resp' = Ret(room_status, NoError, join_room_result(room_status))
                /\ UNCHANGED txn
           ELSE /\ txn' = txn (+) SetToBag({[token |-> token, user_id |-> uid,
                                             room_id |-> room_id,
                                             select_difficulty |-> select_difficulty]})
                /\ resp' = NoResp

\* the second half with an INSERT that ignores the difficulty the caller chose
join_room_insert_normal(t) ==
    /\ t \in DOMAIN txn
    /\ room_user' = _add_user_in_room(room_user, t.room_id, t.user_id, normal)
    /\ txn' = txn (-) SetToBag({t})
    /\ resp' = Response("join_room", t.token, t.room_id, None, t.select_difficulty,
                        NoRow, NoError, Ok)
    /\ UNCHANGED <<user, room>>

\* second half: _add_user_in_room, return Ok, commit
join_room_insert(t) ==
    /\ t \in DOMAIN txn
    /\ room_user' = _add_user_in_room(room_user, t.room_id, t.user_id,
                                      t.select_difficulty)
    /\ txn' = txn (-) SetToBag({t})
    /\ resp' = Response("join_room", t.token, t.room_id, None, t.select_difficulty,
                        NoRow, NoError, Ok)
    /\ UNCHANGED <<user, room>>

----------------------------------------------------------------------------
(* wait_room: SELECT the room, SELECT its members joined with user *)

\* one RoomUser of the result list
RoomUser(u, ru_row, me, owner) ==
    [user_id |-> u.id, name |-> u.name, leader_card_id |-> u.leader_card_id,
     select_difficulty |-> ru_row.select_difficulty,
     is_me |-> (me = u.id), is_host |-> (owner = u.id)]

\* the member SELECT without its WHERE: the members of every room
room_user_list_every_room(usr, ru, room_id, me, owner) ==
    LET pairs == {p \in usr \X DOMAIN ru : p[1].id = p[2].user_id}
        views == {RoomUser(p[1], p[2], me, owner) : p \in pairs}
        from(v) == {p[2] : p \in {q \in pairs :
                                     RoomUser(q[1], q[2], me, owner) = v}}
    IN  [v \in views |-> BagCardinality([x \in from(v) |-> ru[x]])]

\* the result list as a bag (the SELECT has no ORDER BY): one RoomUser for every
\* pair of a user row and a room_user row of the room with u.id = ru.user_id
room_user_list(usr, ru, room_id, me, owner) ==
    LET rows == RoomUsers(ru, room_id)
        pairs == {p \in usr \X DOMAIN rows : p[1].id = p[2].user_id}
        views == {RoomUser(p[1], p[2], me, owner) : p \in pairs}
        from(v) == {p[2] : p \in {q \in pairs :
                                     RoomUser(q[1], q[2], me, owner) = v}}
    IN  [v \in views |-> BagCardinality([x \in from(v) |-> rows[x]])]

\* wait_room that does not read the status column: it reports Waiting
wait_room_always_waiting(room_id, token) ==
    LET uid == _get_user_by_token(user, token)
        Ret(error, result) ==
            Response("wait_room", token, room_id, None, None, NoRow, error, result)
    IN  /\ UNCHANGED <<user, room, room_user, txn>>
        /\ IF uid = None
           THEN resp' = Ret(InvalidToken, None)
           ELSE IF room_id \notin DOMAIN room
           THEN resp' = Ret(NoResultFound, None)
           ELSE resp' = Ret(NoError,
                            [status |-> Waiting,
                             room_user_list |->
                                 room_user_list(user, room_user, room_id, uid,
                                                room[room_id].owner)])

wait_room(room_id, token) ==
    LET uid == _get_user_by_token(user, token)
        Ret(error, result) ==
            Response("wait_room", token, room_id, None, None, NoRow, error, result)
    IN  /\ UNCHANGED <<user, room, room_user, txn>>
        /\ IF uid = None
           THEN resp' = Ret(InvalidToken, None)
           ELSE IF room_id \notin DOMAIN room                 \* .one() raises
           THEN resp' = Ret(NoResultFound, None)
           ELSE resp' = Ret(NoError,
                            [status |-> room[room_id].status,
                             room_user_list |->
                                 room_user_list(user, room_user, room_id, uid,
                                                room[room_id].owner)])

----------------------------------------------------------------------------
(* start_room: one UPDATE; the token is not looked at *)

\* start_room as a switch: a started room goes back to Waiting
start_room_toggle(token, room_id) ==
    /\ room' = [r \in DOMAIN room |->
                  IF r = room_id
                  THEN [room[r] EXCEPT !.status =
                           IF @ = LiveStart THEN Waiting ELSE LiveStart]
                  ELSE room[r]]
    /\ resp' = Response("start_room", token, room_id, None, None, NoRow, NoError, None)
    /\ UNCHANGED <<user, room_user, txn>>

\* start_room whose UPDATE has no WHERE: every room is started
start_room_every_room(token, room_id) ==
    /\ room' = [r \in DOMAIN room |-> [room[r] EXCEPT !.status = LiveStart]]
    /\ resp' = Response("start_room", token, room_id, None, None, NoRow, NoError, None)
    /\ UNCHANGED <<user, room_user, txn>>

\* start_room with the owner check of the commented-out lines: only the owner's
\* token starts the room
start_room_owner_only(token, room_id) ==
    LET uid == _get_user_by_token(user, token)
        Ret(error) ==
            Response("start_room", token, room_id, None, None, NoRow, error, None)
    IN  /\ UNCHANGED <<user, room_user, txn>>
        /\ IF uid = None THEN resp' = Ret(InvalidToken) /\ UNCHANGED room
           ELSE IF room_id \notin DOMAIN room
           THEN resp' = Ret(NoResultFound) /\ UNCHANGED room
           ELSE IF room[room_id].owner # uid
           THEN resp' = Ret(InvalidToken) /\ UNCHANGED room
           ELSE /\ room' = [room EXCEPT ![room_id].status = LiveStart]
                /\ resp' = Ret(NoError)

start_room(token, room_id) ==
    /\ room' = [r \in DOMAIN room |->
                  IF r = room_id THEN [room[r] EXCEPT !.status = LiveStart]
                  ELSE room[r]]
    /\ resp' = Response("start_room", token, room_id, None, None, NoRow, NoError, None)
    /\ UNCHANGED <<user, room_user, txn>>

----------------------------------------------------------------------------
(* leave_room: called by api.room_leave; removes the caller's membership of the room *)

\* leave_room whose DELETE names the user only: the caller leaves every room
leave_room_every_room(token, room_id) ==
    LET uid == _get_user_by_token(user, token)
        Ret(error) ==
            Response("leave_room", token, room_id, None, None, NoRow, error, None)
    IN  /\ UNCHANGED <<user, room, txn>>
        /\ IF uid = None
           THEN resp' = Ret(InvalidToken) /\ UNCHANGED room_user
           ELSE /\ room_user' =
                      [x \in {y \in DOMAIN room_user : y.user_id # uid}
                         |-> room_user[x]]
                /\ resp' = Ret(NoError)

leave_room(token, room_id) ==
    LET uid == _get_user_by_token(user, token)
        Ret(error) ==
            Response("leave_room", token, room_id, None, None, NoRow, error, None)
    IN  /\ UNCHANGED <<user, room, txn>>
        /\ IF uid = None
           THEN resp' = Ret(InvalidToken) /\ UNCHANGED room_user
           ELSE /\ room_user' =
                      [x \in {y \in DOMAIN room_user :
                                ~(y.room_id = room_id /\ y.user_id = uid)}
                         |-> room_user[x]]
                /\ resp' = Ret(NoError)

----------------------------------------------------------------------------

----------------------------------------------------------------------------
(* end_room and result_room: called by the api, their bodies not in the     *)
(* source; modelled from the specification of the room service              *)

\* the results a client submits: a judge count list and a score
EndInputs == {[judge_count_list |-> <<1, 2, 3>>, score |-> 900],
              [judge_count_list |-> <<0, 0, 5>>, score |-> 100]}

\* UPDATE room_user SET judge_count_list, score WHERE room_id AND user_id
set_result(ru, room_id, user_id, judge_count_list, score) ==
    LET hit(x) == x.room_id = room_id /\ x.user_id = user_id
        upd(x) == IF hit(x)
                  THEN [x EXCEPT !.judge_count_list = judge_count_list,
                                 !.score = score]
                  ELSE x
        new == {upd(x) : x \in DOMAIN ru}
    IN  [y \in new |->
            BagCardinality([x \in {z \in DOMAIN ru : upd(z) = y} |-> ru[x]])]

end_room(token, room_id, judge_count_list, score) ==
    LET uid == _get_user_by_token(user, token)
        Ret(error) ==
            Response("end_room", token, room_id, None, None, NoRow, error, None)
    IN  /\ UNCHANGED <<user, room, txn>>
        /\ IF uid = None
           THEN resp' = Ret(InvalidToken) /\ UNCHANGED room_user
           ELSE /\ room_user' = set_result(room_user, room_id, uid,
                                           judge_count_list, score)
                /\ resp' = Ret(NoError)

\* one ResultUser of the result list
ResultUser(ru_row) ==
    [user_id |-> ru_row.user_id, judge_count_list |-> ru_row.judge_count_list,
     score |-> ru_row.score]

\* the result list as a bag: one ResultUser for every row of the room that has
\* a result
result_room_rows(ru, room_id) ==
    LET rows == {x \in DOMAIN ru : x.room_id = room_id /\ x.score # None}
        views == {ResultUser(x) : x \in rows}
    IN  [v \in views |->
            BagCardinality([x \in {z \in rows : ResultUser(z) = v} |-> ru[x]])]

result_room(room_id) ==
    /\ resp' = Response("result_room", None, room_id, None, None, NoRow, NoError,
                        result_room_rows(room_user, room_id))
    /\ UNCHANGED <<user, room, room_user, txn>>

Init ==
    /\ user = {UserRow(i) : i \in UserIds}
    /\ room = <<>>
    /\ room_user = EmptyBag
    /\ txn = EmptyBag
    /\ resp = NoResp
    /\ todo = {}
    /\ tally = [r \in JoinRoomResult |-> 0]

\* The caller takes the response.  A response is handed over before the next
\* request is served: it touches no table, so every store state and every pair of
\* a store state and a response on it is reached all the same.
Reply ==
    /\ resp # NoResp
    /\ resp' = NoResp
    /\ UNCHANGED <<user, room, room_user, txn>>

Idle == resp = NoResp

\* the bounds of the model, on the state a step leads to
Bounded ==
    /\ Len(room') <= MaxRooms
    /\ BagCardinality(txn') <= MaxTxn
    /\ BagCardinality(room_user') + BagCardinality(txn') <= MaxRows

Next ==
    \/ Reply /\ UNCHANGED <<todo, tally>>
    \/ \E t \in Tokens, l \in LiveIds, d \in LiveDifficulty :
          Idle /\ create_room_with_host(t, l, d) /\ Bounded /\ UNCHANGED <<todo, tally>>
    \/ \E l \in LiveIds :
          Idle /\ list_room(l) /\ UNCHANGED <<todo, tally>>
    \/ \E t \in Tokens, r \in RoomIds, d \in LiveDifficulty :
          Idle /\ join_room_select(t, r, d) /\ Bounded /\ UNCHANGED <<todo, tally>>
    \/ \E t \in DOMAIN txn :
          Idle /\ join_room_insert(t) /\ UNCHANGED <<todo, tally>>
    \/ \E t \in Tokens, r \in RoomIds :
          Idle /\ wait_room(r, t) /\ UNCHANGED <<todo, tally>>
    \/ \E t \in Tokens, r \in RoomIds :
          Idle /\ start_room(t, r) /\ UNCHANGED <<todo, tally>>
    \/ \E t \in Tokens, r \in RoomIds :
          Idle /\ leave_room(t, r) /\ UNCHANGED <<todo, tally>>

Spec == Init /\ [][Next]_vars

\* The service with the result calls: every call of Next and end_room and
\* result_room, on a store of at most MaxResultRows membership rows.
ResultBounded ==
    BagCardinality(room_user') + BagCardinality(txn') <= MaxResultRows

ResultNext ==
    \/ Next /\ ResultBounded
    \/ \E t \in Tokens, r \in RoomIds, e \in EndInputs :
          /\ Idle /\ end_room(t, r, e.judge_count_list, e.score)
          /\ UNCHANGED <<todo, tally>>
    \/ \E r \in RoomIds :
          Idle /\ result_room(r) /\ UNCHANGED <<todo, tally>>

SpecResult == Init /\ [][ResultNext]_vars

----------------------------------------------------------------------------
(* The race of the concurrency test: a freshly created room, and n users    *)
(* who each call join_room on it once, their SELECTs and INSERTs in any     *)
(* order.  tally counts what the calls returned.                            *)

Owner == Len(<<"host">>)                \* user 1 created the room
FreshRoom == Len(<<"room">>)            \* and it got id 1
Joiners(n) == {i + 1 : i \in 1..n}

RaceInit ==
    \E n \in 1..MaxJoiners :
        /\ user = {UserRow(i) : i \in {Owner} \cup Joiners(n)}
        /\ room = <<[live_id |-> 10, status |-> Waiting, owner |-> Owner]>>
        /\ room_user = _add_user_in_room(EmptyBag, FreshRoom, Owner, normal)
        /\ txn = EmptyBag
        /\ resp = NoResp
        /\ todo = Joiners(n)
        /\ tally = [r \in JoinRoomResult |-> 0]

\* a call has returned: count its result
CountResult ==
    tally' = IF resp' # NoResp /\ resp'.error = NoError
             THEN [tally EXCEPT ![resp'.result] = @ + 1]
             ELSE tally

RaceNext ==
    \/ Reply /\ UNCHANGED <<todo, tally>>
    \/ \E u \in todo, d \in LiveDifficulty :
          /\ Idle /\ join_room_select(Token(u), FreshRoom, d)
          /\ todo' = todo \ {u} /\ CountResult
    \/ \E t \in DOMAIN txn :
          Idle /\ join_room_insert(t) /\ UNCHANGED todo /\ CountResult

SpecRace == RaceInit /\ [][RaceNext]_vars

----------------------------------------------------------------------------
(* Properties *)

----------------------------------------------------------------------------
(* Polling: a room created by its owner, who polls wait_room on it while    *)
(* any user joins, leaves or starts the room.  The server answers every     *)
(* request, and the owner goes on polling: whenever the server is free      *)
(* again and again, a poll of the owner is served.                          *)

PollInit ==
    /\ user = {UserRow(i) : i \in UserIds}
    /\ room = <<[live_id |-> 10, status |-> Waiting, owner |-> Owner]>>
    /\ room_user = _add_user_in_room(EmptyBag, FreshRoom, Owner, normal)
    /\ txn = EmptyBag
    /\ resp = NoResp
    /\ todo = {}
    /\ tally = [r \in JoinRoomResult |-> 0]

Poll == Idle /\ wait_room(FreshRoom, Token(Owner)) /\ UNCHANGED <<todo, tally>>
Answer == Reply /\ UNCHANGED <<todo, tally>>

PollNext ==
    \/ Answer
    \/ Poll
    \/ \E t \in Tokens, d \in LiveDifficulty :
          /\ Idle /\ join_room_select(t, FreshRoom, d) /\ Bounded
          /\ UNCHANGED <<todo, tally>>
    \/ \E t \in DOMAIN txn :
          Idle /\ join_room_insert(t) /\ UNCHANGED <<todo, tally>>
    \/ \E t \in Tokens :
          Idle /\ wait_room(FreshRoom, t) /\ UNCHANGED <<todo, tally>>
    \/ \E t \in Tokens :
          Idle /\ start_room(t, FreshRoom) /\ UNCHANGED <<todo, tally>>
    \/ \E t \in Tokens :
          Idle /\ leave_room(t, FreshRoom) /\ UNCHANGED <<todo, tally>>

SpecPoll ==
    PollInit /\ [][PollNext]_vars /\ WF_vars(Answer) /\ SF_vars(Poll)

ValidToken(t) == \E u \in user : u.token = t
UserOf(t) == CHOOSE u \in user : u.token = t
Rows(r) == RoomUsers(room_user, r)
Min(a, b) == IF a < b THEN a ELSE b

\* the calls of the race have all returned
RaceOver == todo = {} /\ txn = EmptyBag

\* C1: every room has at most 4 membership rows, in every reachable state.
C1_AtMostFourMembers ==
    \A r \in DOMAIN room : BagCardinality(Rows(r)) <= 4

\* C2: of N concurrent join_room calls by N distinct users on a freshly created
\* room, exactly min(N, 3) return Ok and all the others return RoomFull.
C2_ExactlyThreeJoin ==
    RaceOver =>
        LET N == Cardinality(user) - 1
        IN  /\ tally[Ok] = Min(N, 3)
            /\ tally[RoomFull] = N - Min(N, 3)

\* C3: join_room by a valid caller on an existing room returns RoomFull when the
\* count it read is >= 4, otherwise Disbanded when the status it read is not
\* Waiting, otherwise it inserts and returns Ok; it ends in no other way.
C3_JoinDecisionOrder ==
    (/\ resp.op = "join_room"
     /\ ValidToken(resp.token)
     /\ resp.room_id \in DOMAIN room)
    => /\ resp.error = NoError
       /\ resp.result \in {Ok, RoomFull, Disbanded}
       /\ resp.result = RoomFull => resp.read.count >= 4
       /\ resp.result = Disbanded =>
              resp.read.count < 4 /\ resp.read.status # Waiting

\* C4: join_room with a valid token on a room id that names no room returns the
\* join result OtherError.
C4_NoRoomIsOtherError ==
    (/\ resp.op = "join_room"
     /\ ValidToken(resp.token)
     /\ resp.room_id \notin DOMAIN room)
    => resp.error = NoError /\ resp.result = OtherError

\* C5: no room holds two membership rows of the same user.
C5_UniqueMembership ==
    /\ \A x \in DOMAIN room_user : room_user[x] = 1
    /\ \A x, y \in DOMAIN room_user :
          (x.room_id = y.room_id /\ x.user_id = y.user_id) => x = y

\* C6: the owner of every room has a membership row in it.
C6_OwnerIsMember ==
    \A r \in DOMAIN room :
        \E x \in DOMAIN room_user : x.room_id = r /\ x.user_id = room[r].owner

\* how many elements of the bag b satisfy P
CountOf(b, P(_)) ==
    BagCardinality([x \in {y \in DOMAIN b : P(y)} |-> b[x]])

\* C7: create_room with a valid token creates in one step a room with a new id,
\* status Waiting and the caller as owner, together with exactly one membership row
\* (that room, the caller, the given difficulty), and returns the id; no step makes
\* a room appear without its owner's membership.
C7_CreateRoomAtomic ==
    [][ /\ (resp'.op = "create_room" /\ ValidToken(resp'.token)) =>
            LET id == resp'.result
                row == RoomUserRow(id, UserOf(resp'.token).id,
                                   resp'.select_difficulty)
            IN  /\ resp'.error = NoError
                /\ id \notin DOMAIN room
                /\ DOMAIN room' = DOMAIN room \cup {id}
                /\ \A r \in DOMAIN room : room'[r] = room[r]
                /\ room'[id] = [live_id |-> resp'.live_id, status |-> Waiting,
                                owner |-> UserOf(resp'.token).id]
                /\ DOMAIN room_user' = DOMAIN room_user \cup {row}
                /\ \A x \in DOMAIN room_user : room_user'[x] = room_user[x]
                /\ room_user'[row] = 1
                /\ CountOf(room_user', LAMBDA x : x.room_id = id) = 1
        /\ \A r \in DOMAIN room' \ DOMAIN room :
              /\ room'[r].status = Waiting
              /\ CountOf(room_user', LAMBDA x : x.room_id = r
                                              /\ x.user_id = room'[r].owner) = 1
      ]_vars

\* C7 witness: a second room has just been created, by a user who chose hard.
C7_Witness ==
    /\ resp.op = "create_room" /\ resp.error = NoError
    /\ resp.result = 2 /\ Len(room) = 2
    /\ resp.select_difficulty = hard
    /\ CountOf(room_user, LAMBDA x : x.room_id = 2) = 1

\* C8: list_rooms returns no room whose status is not Waiting and no room with 0
\* members; a room that start_room has set to LiveStart is in no result.
C8_ListOnlyWaitingNonEmpty ==
    resp.op = "list_room" =>
        \A info \in resp.result :
            /\ info.room_id \in DOMAIN room
            /\ room[info.room_id].status = Waiting
            /\ room[info.room_id].status # LiveStart
            /\ CountOf(room_user, LAMBDA x : x.room_id = info.room_id) > 0

\* C8 witness: list_rooms(0) has answered while one room with members is LiveStart
\* and another, still Waiting, has no member left; neither is listed.
C8_Witness ==
    /\ resp.op = "list_room" /\ resp.live_id = 0
    /\ \E r \in DOMAIN room :
          room[r].status = LiveStart /\ CountOf(room_user, LAMBDA x : x.room_id = r) > 0
    /\ \E r \in DOMAIN room :
          room[r].status = Waiting /\ CountOf(room_user, LAMBDA x : x.room_id = r) = 0
    /\ resp.result = {}

\* the rooms list_rooms(s) has to report
Listed(s) ==
    {r \in DOMAIN room :
        /\ room[r].status = Waiting
        /\ CountOf(room_user, LAMBDA x : x.room_id = r) >= 1
        /\ (s = 0 \/ room[r].live_id = s)}

\* C9: list_rooms(s) returns exactly one summary for each room that is Waiting, has
\* at least one member and whose song is s (every song when s = 0), with
\* joined_user_count the room's number of membership rows and max_user_count 4;
\* so directly after create_room(token, song, difficulty) list_rooms(song) and
\* list_rooms(0) contain the new room with joined_user_count 1.
C9_ListExactlyWaitingRooms ==
    /\ resp.op = "list_room" =>
          /\ \A info \in resp.result :
                /\ info.room_id \in Listed(resp.live_id)
                /\ info.live_id = room[info.room_id].live_id
                /\ info.joined_user_count =
                       CountOf(room_user, LAMBDA x : x.room_id = info.room_id)
                /\ info.max_user_count = 4
          /\ \A r \in Listed(resp.live_id) :
                Cardinality({info \in resp.result : info.room_id = r}) = 1
    /\ (resp.op = "create_room" /\ resp.error = NoError) =>
          \A s \in {resp.live_id, 0} :
              [room_id |-> resp.result, live_id |-> resp.live_id,
               joined_user_count |-> 1, max_user_count |-> 4]
                  \in list_room_rows(room, room_user, s)

\* C9 witness: list_rooms(10) has answered with one room of three members while a
\* Waiting room of another song exists.
C9_Witness ==
    /\ resp.op = "list_room" /\ resp.live_id = 10
    /\ \E info \in resp.result : info.joined_user_count = 3
    /\ Cardinality(resp.result) = 1
    /\ \E r \in DOMAIN room :
          /\ room[r].status = Waiting /\ room[r].live_id # 10
          /\ CountOf(room_user, LAMBDA x : x.room_id = r) = 1

\* C10: the member list of every wait_room call with a valid token on an existing
\* room has exactly one entry with is_me and exactly one entry with is_host.
C10_OneMeOneHost ==
    (resp.op = "wait_room" /\ resp.error = NoError) =>
        /\ CountOf(resp.result.room_user_list, LAMBDA v : v.is_me) = 1
        /\ CountOf(resp.result.room_user_list, LAMBDA v : v.is_host) = 1

\* C11: create_room, join_room and wait_room called with a token that resolves to
\* no user fail with InvalidToken and write nothing: rooms and membership rows are
\* the same after the call as before it.
C11_InvalidTokenWritesNothing ==
    [][ (/\ resp'.op \in {"create_room", "join_room", "wait_room"}
         /\ ~ValidToken(resp'.token))
        => /\ resp'.error = InvalidToken
           /\ room' = room
           /\ room_user' = room_user
           /\ txn' = txn
      ]_vars

\* C11 witness: join_room on an existing, joinable room was refused for its token.
C11_Witness ==
    /\ resp.op = "join_room" /\ resp.error = InvalidToken
    /\ resp.room_id \in DOMAIN room
    /\ room[resp.room_id].status = Waiting
    /\ CountOf(room_user, LAMBDA x : x.room_id = resp.room_id) = 1

\* C12: start_room on an existing room succeeds and leaves the room LiveStart,
\* whatever the room's status was and whoever calls: the owner, another member, a
\* non-member or a token that resolves to no user.
C12_StartUnconditional ==
    [][ (resp'.op = "start_room" /\ resp'.room_id \in DOMAIN room)
        => /\ resp'.error = NoError
           /\ resp'.room_id \in DOMAIN room'
           /\ room'[resp'.room_id].status = LiveStart
      ]_vars

\* C12 witness: a token that resolves to no user has started a room that has
\* members; the room is LiveStart.
C12_Witness ==
    /\ resp.op = "start_room" /\ resp.token = BadToken
    /\ resp.room_id \in DOMAIN room
    /\ room[resp.room_id].status = LiveStart
    /\ CountOf(room_user, LAMBDA x : x.room_id = resp.room_id) >= 1

C14_LeaveRemovesOnlyCaller ==
    [][ (resp'.op = "leave_room" /\ ValidToken(resp'.token))
        => LET uid == UserOf(resp'.token).id
               mine(x) == x.room_id = resp'.room_id /\ x.user_id = uid
           IN  /\ resp'.error = NoError
               /\ room' = room
               /\ txn' = txn
               /\ DOMAIN room_user' = {x \in DOMAIN room_user : ~mine(x)}
               /\ \A x \in DOMAIN room_user' : room_user'[x] = room_user[x]
      ]_vars

\* C14 witness: the owner, the only member, has left a room; the room is still
\* there with its owner, and the caller is still in another room.
C14_Witness ==
    /\ resp.op = "leave_room" /\ ValidToken(resp.token)
    /\ resp.room_id \in DOMAIN room
    /\ room[resp.room_id].owner = UserOf(resp.token).id
    /\ Rows(resp.room_id) = EmptyBag
    /\ \E x \in DOMAIN room_user : x.user_id = UserOf(resp.token).id

\* C15: the status of a room only moves forward.  A room is Waiting when it is
\* created; a status changes only in a start_room of that room and only to
\* LiveStart; a LiveStart room never becomes Waiting again; no room is Dissolved.
C15_StatusOnlyForward ==
    [][ \A r \in DOMAIN room' :
           /\ room'[r].status \in {Waiting, LiveStart}
           /\ r \notin DOMAIN room => room'[r].status = Waiting
           /\ r \in DOMAIN room =>
                 /\ room[r].status = LiveStart => room'[r].status = LiveStart
                 /\ room'[r].status # room[r].status
                    => /\ resp'.op = "start_room" /\ resp'.room_id = r
                       /\ room'[r].status = LiveStart
      ]_vars

\* C15 witness: start_room has been called on the first of two rooms; it is
\* LiveStart and the second room, created later, is Waiting.
C15_Witness ==
    /\ resp.op = "start_room" /\ resp.room_id = 1
    /\ Len(room) = 2
    /\ room[1].status = LiveStart /\ room[2].status = Waiting

\* C16: join_room changes at most the membership of the named room.  A call that
\* returns Ok adds exactly one row (the room, the caller, the difficulty); a call
\* that returns RoomFull or Disbanded or fails adds none; in every case the rooms
\* (status, owner, song) and all other membership rows are unchanged.
C16_JoinAddsOneRowOrNone ==
    [][ /\ resp'.op = "join_room" =>
              /\ room' = room
              /\ IF resp'.error = NoError /\ resp'.result = Ok
                 THEN /\ ValidToken(resp'.token)
                      /\ room_user' = room_user (+) SetToBag({
                            RoomUserRow(resp'.room_id, UserOf(resp'.token).id,
                                        resp'.select_difficulty)})
                 ELSE room_user' = room_user
        /\ txn' # txn => (resp'.op \in {"join_room", "none"} /\ room' = room)
        /\ (txn' # txn /\ resp'.op = "none") => room_user' = room_user
      ]_vars

\* C16 witness: a user has joined with hard the second of two rooms, the first
\* room has members too.
C16_Witness ==
    /\ resp.op = "join_room" /\ resp.error = NoError /\ resp.result = Ok
    /\ resp.room_id = 2 /\ resp.select_difficulty = hard
    /\ Rows(1) # EmptyBag
    /\ BagCardinality(Rows(2)) = 2

\* C17: once a room is LiveStart its membership never grows: no step adds a row
\* to a room that is LiveStart, also when a join_room that read Waiting is in
\* flight while start_room runs.
C17_NoGrowthAfterStart ==
    [][ \A r \in DOMAIN room :
           room[r].status = LiveStart
           => CountJoined(room_user', r) <= CountJoined(room_user, r)
      ]_vars

\* C19: wait_room is read-only and reports the store.  It changes no room and no
\* membership row; when it succeeds it returns the current status of the room and
\* one member view for every membership row of that room, of no other room, each
\* with the difficulty of its row.
C19_WaitRoomReportsStore ==
    [][ resp'.op = "wait_room" =>
           /\ room' = room /\ room_user' = room_user /\ txn' = txn
           /\ resp'.error = NoError =>
                 LET r == resp'.room_id
                     lst == resp'.result.room_user_list
                 IN  /\ r \in DOMAIN room
                     /\ resp'.result.status = room[r].status
                     /\ BagCardinality(lst) = CountJoined(room_user, r)
                     /\ \A u \in UserIds, d \in LiveDifficulty :
                           CountOf(lst, LAMBDA v : v.user_id = u
                                                   /\ v.select_difficulty = d)
                           = CountOf(room_user, LAMBDA x : /\ x.room_id = r
                                                           /\ x.user_id = u
                                                           /\ x.select_difficulty = d)
      ]_vars

\* C19 witness: wait_room has returned the two members of a room, who chose
\* different difficulties, while another room has a member.
C19_Witness ==
    /\ resp.op = "wait_room" /\ resp.error = NoError
    /\ BagCardinality(resp.result.room_user_list) = 2
    /\ Cardinality({v.select_difficulty :
                       v \in DOMAIN resp.result.room_user_list}) = 2
    /\ \E x \in DOMAIN room_user : x.room_id # resp.room_id

\* C20: start_room changes nothing but the status of the named room: membership
\* rows, owners, songs and the other rooms are unchanged.  With a room_id that
\* names no room it returns without error, creates no room and changes nothing.
\* A second start_room of a room leaves the state as the first left it.
C20_StartChangesOnlyStatus ==
    [][ resp'.op = "start_room" =>
           /\ resp'.error = NoError
           /\ user' = user /\ room_user' = room_user /\ txn' = txn
           /\ DOMAIN room' = DOMAIN room
           /\ \A r \in DOMAIN room :
                 /\ room'[r].owner = room[r].owner
                 /\ room'[r].live_id = room[r].live_id
                 /\ r # resp'.room_id => room'[r] = room[r]
           /\ resp'.room_id \notin DOMAIN room => room' = room
           /\ (resp'.room_id \in DOMAIN room
               /\ room[resp'.room_id].status = LiveStart) => room' = room
      ]_vars

\* C20 witness: start_room has started the second of two rooms, both with members,
\* and the first is still Waiting.
C20_Witness ==
    /\ resp.op = "start_room" /\ resp.room_id = 2
    /\ Len(room) = 2
    /\ room[2].status = LiveStart /\ room[1].status = Waiting
    /\ Rows(1) # EmptyBag /\ Rows(2) # EmptyBag

\* a wait_room of the polled room, by a valid caller, has returned status s
Observed(s) ==
    IF resp.op = "wait_room" /\ resp.error = NoError
    THEN resp.room_id = FreshRoom /\ resp.result.status = s
    ELSE FALSE

\* the polling client, the owner, has observed status s
OwnerObserved(s) ==
    IF Observed(s) THEN resp.token = Token(Owner) ELSE FALSE

\* C18: polling terminates.  Once start_room of the room has completed, every
\* wait_room of it by a valid caller returns LiveStart; a client that has observed
\* LiveStart never observes Waiting afterwards; and when the room is started, the
\* polling client eventually observes LiveStart.
C18_PollingTerminates ==
    /\ [](room[FreshRoom].status = LiveStart => ~Observed(Waiting))
    /\ [](Observed(LiveStart) => [](~Observed(Waiting)))
    /\ (room[FreshRoom].status = LiveStart) ~> OwnerObserved(LiveStart)

\* C18 witness: the polling owner has observed LiveStart on a room of two rows.
C18_Witness ==
    /\ OwnerObserved(LiveStart)
    /\ BagCardinality(Rows(FreshRoom)) = 2

====
